---- MODULE Spec2Model ----
(***************************************************************************)
(* mtpy.imaging.mtplot: seven forwarding functions, each of the shape      *)
(*     def plot_x( **kwargs ): return alias( **kwargs )                    *)
(* where alias is a module-level name bound by an import to a plot class.  *)
(* The model follows one caller through a sequence of calls.  Dictionaries *)
(* live in a heap (store) and are held by reference, so that the copies    *)
(* Python makes when binding and unpacking ** arguments are visible, and   *)
(* plot objects live in a heap (objs) so that identity is visible.         *)
(***************************************************************************)
EXTENDS Naturals, Sequences, FiniteSets, TLC

\* ------------------------------------------------------------- bounds
\* Calls the caller makes in one run.
MaxCalls == 2
\* Distinct option names the caller and the constructors draw from.
NumKeys == 2

KeyNames == <<"plot_tipper", "unknown_key", "fn_lst", "plot_style">>
Keys == {KeyNames[i] : i \in 1..NumKeys}
Values == {"yr", "malformed"}
\* Every configuration bundle over Keys, the empty one included.
Bundles == UNION {[S -> Values] : S \in SUBSET Keys}
EmptyBundle == [k \in {} |-> "yr"]
\* Errors a plot class may raise while constructing.
Errors == {"IOError", "ValueError"}
AttrValues == {"default", "skew_seg"}

\* ------------------------------------------------------------- module text
\* The functions the module defines with def.
Functions ==
    {"plot_mt_response", "plot_multiple_mt_responses", "plot_pt",
     "plot_pt_pseudosection", "plot_pt_map", "plot_strike",
     "plot_resphase_pseudosection"}

\* The names in the function table of the module docstring.
DocumentedNames ==
    {"plot_mt_response", "plot_multiple_mt_responses", "plot_pt",
     "plot_pt_pseudosection", "plot_mt_map", "plot_strike"}

Aliases ==
    {"plotnresponses", "plotrpps", "plotpt", "plotptps", "plotptmaps",
     "plotresponse", "plotstrike"}

Classes ==
    {"PlotMultipleResponses", "PlotResPhasePseudoSection", "PlotPhaseTensor",
     "PlotPhaseTensorPseudoSection", "PlotPhaseTensorMaps", "PlotResponse",
     "PlotStrike"}

\* An import line that names the wrong class for the map alias.
ImportedAsWrongClass(a) ==
    CASE a = "plotnresponses" -> "PlotMultipleResponses"
      [] a = "plotrpps"       -> "PlotResPhasePseudoSection"
      [] a = "plotpt"         -> "PlotPhaseTensor"
      [] a = "plotptps"       -> "PlotPhaseTensorPseudoSection"
      [] a = "plotptmaps"     -> "PlotPhaseTensorPseudoSection"
      [] a = "plotresponse"   -> "PlotResponse"
      [] a = "plotstrike"     -> "PlotStrike"

\* from mtpy.imaging.<module> import <Class> as <alias>
ImportedAs(a) ==
    CASE a = "plotnresponses" -> "PlotMultipleResponses"
      [] a = "plotrpps"       -> "PlotResPhasePseudoSection"
      [] a = "plotpt"         -> "PlotPhaseTensor"
      [] a = "plotptps"       -> "PlotPhaseTensorPseudoSection"
      [] a = "plotptmaps"     -> "PlotPhaseTensorMaps"
      [] a = "plotresponse"   -> "PlotResponse"
      [] a = "plotstrike"     -> "PlotStrike"

\* A copy-and-paste slip: the map function calls the phase tensor alias.
CalleePasted(f) ==
    CASE f = "plot_mt_response"            -> "plotresponse"
      [] f = "plot_multiple_mt_responses"  -> "plotnresponses"
      [] f = "plot_pt"                     -> "plotpt"
      [] f = "plot_pt_pseudosection"       -> "plotptps"
      [] f = "plot_pt_map"                 -> "plotpt"
      [] f = "plot_strike"                 -> "plotstrike"
      [] f = "plot_resphase_pseudosection" -> "plotrpps"

\* The alias each function body calls: return <alias>( **kwargs )
Callee(f) ==
    CASE f = "plot_mt_response"            -> "plotresponse"
      [] f = "plot_multiple_mt_responses"  -> "plotnresponses"
      [] f = "plot_pt"                     -> "plotpt"
      [] f = "plot_pt_pseudosection"       -> "plotptps"
      [] f = "plot_pt_map"                 -> "plotptmaps"
      [] f = "plot_strike"                 -> "plotstrike"
      [] f = "plot_resphase_pseudosection" -> "plotrpps"

\* ------------------------------------------------------------- state
VARIABLES
    pc,            \* where the current call is
    name,          \* the attribute of the module the caller called
    calls,         \* calls started so far
    store,         \* heap of dictionaries: reference -> mapping
    callerRef,     \* the caller's own bundle
    kwargsRef,     \* the forwarding function's local kwargs (0: no frame)
    ctorRef,       \* the mapping the constructor received (0: none)
    bundle0,       \* the caller's bundle as it was when the call was made
    ctorLog,       \* constructor invocations of this call, as a stub records them
    ctorState,     \* the constructor's progress in this call
    ctorErr,       \* the error the constructor raised in this call
    ctorObj,       \* the instance the constructor produced in this call (0: none)
    outcome,       \* what the caller observes from this call
    objs,          \* heap of plot objects: reference -> attribute value
    preObjs,       \* plot objects that existed when the call was made
    moduleGlobals  \* the module namespace: alias -> class

vars ==
    <<pc, name, calls, store, callerRef, kwargsRef, ctorRef, bundle0, ctorLog,
      ctorState, ctorErr, ctorObj, outcome, objs, preObjs, moduleGlobals>>

NoOutcome == [kind |-> "none", obj |-> 0, err |-> "none"]

Init ==
    /\ pc = "idle"
    /\ name = "none"
    /\ calls = 0
    /\ store = (1 :> EmptyBundle)
    /\ callerRef = 1
    /\ kwargsRef = 0
    /\ ctorRef = 0
    /\ bundle0 = EmptyBundle
    /\ ctorLog = <<>>
    /\ ctorState = "notstarted"
    /\ ctorErr = "none"
    /\ ctorObj = 0
    /\ outcome = NoOutcome
    /\ objs = <<>>
    /\ preObjs = 0
    /\ moduleGlobals = [a \in Aliases |-> ImportedAs(a)]

\* ------------------------------------------------------------- helpers
\* A ** binding that hands the callee the very dictionary it was given.
UnpackAlias(r, st) == r

\* Binding **kwargs, and unpacking with **, builds a new dictionary.
UnpackRef(r, st) == Cardinality(DOMAIN st) + 1

\* A forwarding function that fills in an option of its own.
KeywordArgsDefaulted(m) ==
    [k \in DOMAIN m \cup {KeyNames[1]} |-> IF k \in DOMAIN m THEN m[k] ELSE "yr"]

\* The items ** passes on: every key of the mapping with its value.
KeywordArgs(m) == [k \in DOMAIN m |-> m[k]]

\* The class a function's body reaches: its alias, looked up in the module
\* namespace when the body runs.
TargetOf(f) == moduleGlobals[Callee(f)]

\* A body that rebinds a module-level alias as a side effect of a call.
GlobalsRebound(g) == [g EXCEPT !["plotresponse"] = g["plotpt"]]

\* No body assigns to a module-level name.
GlobalsAfterCall(g) == g

\* A body that catches the error and raises one of its own.
RaisedWrapped(e) == "RuntimeError"

\* The body has no try: the constructor's error leaves the function as it is.
Raised(e) == e

\* A body that calls the constructor and forgets to return its value.
ReturnedNone(o) == 0

\* return <alias>( **kwargs ): the value of the call expression.
Returned(o) == o

\* A body that hands back before the constructor has finished.
MayReturnEarly == pc \in {"constructing", "constructed"}

\* The return statement runs once the call expression has a value.
MayReturn == pc = "constructed"

Finished == pc \in {"returned", "raised"}

\* ------------------------------------------------------------- actions
\* The caller calls function f of the module, unpacking its own bundle B.
Call(f, B) ==
    /\ pc = "idle"
    /\ calls < MaxCalls
    /\ LET s0 == (1 :> B)
           r  == UnpackRef(1, s0)
       IN  /\ store' = (r :> KeywordArgs(s0[1])) @@ s0
           /\ kwargsRef' = r
    /\ callerRef' = 1
    /\ ctorRef' = 0
    /\ bundle0' = B
    /\ pc' = "entered"
    /\ name' = f
    /\ calls' = calls + 1
    /\ ctorLog' = <<>>
    /\ ctorState' = "notstarted"
    /\ ctorErr' = "none"
    /\ ctorObj' = 0
    /\ outcome' = NoOutcome
    /\ preObjs' = Len(objs)
    /\ UNCHANGED <<objs, moduleGlobals>>

\* The caller calls a name the module does not define.
CallMissing(n) ==
    /\ pc = "idle"
    /\ calls < MaxCalls
    /\ n \notin Functions
    /\ pc' = "raised"
    /\ name' = n
    /\ calls' = calls + 1
    /\ store' = (1 :> EmptyBundle)
    /\ callerRef' = 1
    /\ kwargsRef' = 0
    /\ ctorRef' = 0
    /\ bundle0' = EmptyBundle
    /\ ctorLog' = <<>>
    /\ ctorState' = "notstarted"
    /\ ctorErr' = "none"
    /\ ctorObj' = 0
    /\ outcome' = [kind |-> "error", obj |-> 0, err |-> "AttributeError"]
    /\ preObjs' = Len(objs)
    /\ UNCHANGED <<objs, moduleGlobals>>

\* A body that checks the options itself before it constructs anything.
ConstructValidating ==
    /\ pc = "entered"
    /\ IF \E k \in DOMAIN store[kwargsRef] : store[kwargsRef][k] = "malformed"
       THEN /\ pc' = "raised"
            /\ outcome' = [kind |-> "error", obj |-> 0, err |-> "ValueError"]
            /\ kwargsRef' = 0
            /\ UNCHANGED <<store, ctorRef, ctorLog, ctorState>>
       ELSE LET r == UnpackRef(kwargsRef, store)
            IN  /\ store' = (r :> KeywordArgs(store[kwargsRef])) @@ store
                /\ ctorRef' = r
                /\ ctorLog' = Append(ctorLog,
                                     [cls |-> TargetOf(name),
                                      args |-> KeywordArgs(store[kwargsRef])])
                /\ ctorState' = "running"
                /\ pc' = "constructing"
                /\ UNCHANGED <<outcome, kwargsRef>>
    /\ UNCHANGED <<name, calls, callerRef, bundle0, ctorErr, ctorObj, objs,
                   preObjs, moduleGlobals>>

\* The body evaluates <alias>( **kwargs ): the class is called with the items
\* of kwargs as its named arguments.
Construct ==
    /\ pc = "entered"
    /\ LET r == UnpackRef(kwargsRef, store)
       IN  /\ store' = (r :> KeywordArgs(store[kwargsRef])) @@ store
           /\ ctorRef' = r
    /\ ctorLog' = Append(ctorLog,
                         [cls |-> TargetOf(name),
                          args |-> KeywordArgs(store[kwargsRef])])
    /\ ctorState' = "running"
    /\ pc' = "constructing"
    /\ UNCHANGED <<name, calls, callerRef, kwargsRef, bundle0, ctorErr, ctorObj,
                   outcome, objs, preObjs, moduleGlobals>>

\* The constructor pops an option from the mapping it received.
CtorPop(k) ==
    /\ pc = "constructing"
    /\ k \in DOMAIN store[ctorRef]
    /\ store' = [store EXCEPT
                   ![ctorRef] = [x \in DOMAIN @ \ {k} |-> @[x]]]
    /\ UNCHANGED <<pc, name, calls, callerRef, kwargsRef, ctorRef, bundle0,
                   ctorLog, ctorState, ctorErr, ctorObj, outcome, objs, preObjs,
                   moduleGlobals>>

\* The constructor sets an option in the mapping it received.
CtorSet(k, v) ==
    /\ pc = "constructing"
    /\ k \notin DOMAIN store[ctorRef]
    /\ store' = [store EXCEPT
                   ![ctorRef] = [x \in DOMAIN @ \cup {k} |->
                                    IF x = k THEN v ELSE @[x]]]
    /\ UNCHANGED <<pc, name, calls, callerRef, kwargsRef, ctorRef, bundle0,
                   ctorLog, ctorState, ctorErr, ctorObj, outcome, objs, preObjs,
                   moduleGlobals>>

\* The constructor completes: a new plot object exists.
CtorReturn ==
    /\ pc = "constructing"
    /\ objs' = Append(objs, "default")
    /\ ctorObj' = Len(objs) + 1
    /\ ctorState' = "finished"
    /\ pc' = "constructed"
    /\ UNCHANGED <<name, calls, store, callerRef, kwargsRef, ctorRef, bundle0,
                   ctorLog, ctorErr, outcome, preObjs, moduleGlobals>>

\* The constructor raises.
CtorRaise(e) ==
    /\ pc = "constructing"
    /\ ctorErr' = e
    /\ ctorState' = "failed"
    /\ pc' = "ctor_raised"
    /\ UNCHANGED <<name, calls, store, callerRef, kwargsRef, ctorRef, bundle0,
                   ctorLog, ctorObj, outcome, objs, preObjs, moduleGlobals>>

\* return: the caller receives the value and the frame is gone.
Return ==
    /\ MayReturn
    /\ outcome' = [kind |-> "value", obj |-> Returned(ctorObj), err |-> "none"]
    /\ pc' = "returned"
    /\ kwargsRef' = 0
    /\ moduleGlobals' = GlobalsAfterCall(moduleGlobals)
    /\ UNCHANGED <<name, calls, store, callerRef, ctorRef, bundle0, ctorLog,
                   ctorState, ctorErr, ctorObj, objs, preObjs>>

\* The constructor's error leaves the forwarding function.
Propagate ==
    /\ pc = "ctor_raised"
    /\ outcome' = [kind |-> "error", obj |-> 0, err |-> Raised(ctorErr)]
    /\ pc' = "raised"
    /\ kwargsRef' = 0
    /\ moduleGlobals' = GlobalsAfterCall(moduleGlobals)
    /\ UNCHANGED <<name, calls, store, callerRef, ctorRef, bundle0, ctorLog,
                   ctorState, ctorErr, ctorObj, objs, preObjs>>

\* The user sets an attribute on the value the call returned.
UserSetAttr(v) ==
    /\ pc = "returned"
    /\ outcome.obj \in 1..Len(objs)
    /\ objs[outcome.obj] # v
    /\ objs' = [objs EXCEPT ![outcome.obj] = v]
    /\ UNCHANGED <<pc, name, calls, store, callerRef, kwargsRef, ctorRef,
                   bundle0, ctorLog, ctorState, ctorErr, ctorObj, outcome,
                   preObjs, moduleGlobals>>

\* The caller is done with this call's outcome and bundle and goes on to its
\* next statement; the plot objects made so far stay.
CallerMovesOn ==
    /\ Finished
    /\ pc' = "idle"
    /\ name' = "none"
    /\ store' = (1 :> EmptyBundle)
    /\ callerRef' = 1
    /\ kwargsRef' = 0
    /\ ctorRef' = 0
    /\ bundle0' = EmptyBundle
    /\ ctorLog' = <<>>
    /\ ctorState' = "notstarted"
    /\ ctorErr' = "none"
    /\ ctorObj' = 0
    /\ outcome' = NoOutcome
    /\ preObjs' = Len(objs)
    /\ UNCHANGED <<calls, objs, moduleGlobals>>

Next ==
    \/ \E f \in Functions, B \in Bundles : Call(f, B)
    \/ \E n \in DocumentedNames : CallMissing(n)
    \/ Construct
    \/ \E k \in Keys : CtorPop(k)
    \/ \E k \in Keys, v \in Values : CtorSet(k, v)
    \/ CtorReturn
    \/ \E e \in Errors : CtorRaise(e)
    \/ Return
    \/ Propagate
    \/ \E v \in AttrValues : UserSetAttr(v)
    \/ CallerMovesOn

Spec == Init /\ [][Next]_vars

\* ------------------------------------------------------------- claims
\* The class each function is said to construct.
ClaimTarget(f) ==
    CASE f = "plot_mt_response"            -> "PlotResponse"
      [] f = "plot_multiple_mt_responses"  -> "PlotMultipleResponses"
      [] f = "plot_pt"                     -> "PlotPhaseTensor"
      [] f = "plot_pt_pseudosection"       -> "PlotPhaseTensorPseudoSection"
      [] f = "plot_pt_map"                 -> "PlotPhaseTensorMaps"
      [] f = "plot_strike"                 -> "PlotStrike"
      [] f = "plot_resphase_pseudosection" -> "PlotResPhasePseudoSection"

\* The class that matches each documented name's description.
DocTarget(n) ==
    CASE n = "plot_mt_response"            -> "PlotResponse"
      [] n = "plot_multiple_mt_responses"  -> "PlotMultipleResponses"
      [] n = "plot_pt"                     -> "PlotPhaseTensor"
      [] n = "plot_pt_pseudosection"       -> "PlotPhaseTensorPseudoSection"
      [] n = "plot_mt_map"                 -> "PlotPhaseTensorMaps"
      [] n = "plot_strike"                 -> "PlotStrike"

InCall == name \in Functions /\ pc # "idle"
Invoked == InCall /\ pc # "entered"

\* C1: one call of a function invokes the constructor of its own target class
\* exactly once and the constructor of no other class.
C1_OneConstructorOfTarget ==
    InCall =>
        /\ Len(ctorLog) <= 1
        /\ \A i \in 1..Len(ctorLog) : ctorLog[i].cls = ClaimTarget(name)
        /\ Invoked => Len(ctorLog) = 1

C1_Witness ==
    /\ pc = "returned"
    /\ calls = 2
    /\ name = "plot_resphase_pseudosection"
    /\ Len(ctorLog) = 1
    /\ ctorLog[1].cls = "PlotResPhasePseudoSection"

\* C2: the named arguments the constructor receives are exactly the caller's
\* bundle: the same keys, each with the same value, none added or removed.
C2_ArgumentsAreTheBundle ==
    InCall =>
        \A i \in 1..Len(ctorLog) :
            /\ DOMAIN ctorLog[i].args = DOMAIN bundle0
            /\ \A k \in DOMAIN bundle0 : ctorLog[i].args[k] = bundle0[k]

C2_Witness ==
    /\ Invoked
    /\ bundle0 = EmptyBundle
    /\ Len(ctorLog) = 1
    /\ DOMAIN ctorLog[1].args = {}

\* C3: an error the constructor raises is the error the caller observes; no
\* plot object comes back and the constructor is not invoked again.
C3_ErrorReachesCallerUnchanged ==
    (InCall /\ ctorErr # "none") =>
        /\ pc \in {"ctor_raised", "raised"}
        /\ Len(ctorLog) = 1
        /\ ctorObj = 0
        /\ pc = "ctor_raised" => outcome = NoOutcome
        /\ pc = "raised" =>
               outcome = [kind |-> "error", obj |-> 0, err |-> ctorErr]

C3_Witness ==
    /\ InCall
    /\ pc = "raised"
    /\ ctorErr = "IOError"
    /\ outcome.err = "IOError"

\* C4: the value returned is the instance the constructor produced in this
\* call: not None, not an instance of an earlier call; what the user sets on
\* it is set on that object.
C4_ReturnsTheConstructedInstance ==
    (InCall /\ pc = "returned") =>
        /\ outcome.kind = "value"
        /\ outcome.obj = ctorObj
        /\ ctorObj \in (preObjs + 1)..Len(objs)
        /\ ctorErr = "none"

C4_Witness ==
    /\ InCall
    /\ pc = "returned"
    /\ preObjs = 1
    /\ outcome.obj = 2
    /\ objs = <<"default", "skew_seg">>

C6_CallsAreIndependent ==
    /\ moduleGlobals = [a \in Aliases |-> ImportedAs(a)]
    /\ (pc = "idle" \/ Finished) => kwargsRef = 0
    /\ InCall =>
           \A i \in 1..Len(ctorLog) :
               ctorLog[i] = [cls |-> ImportedAs(Callee(name)), args |-> bundle0]

C6_Witness ==
    /\ InCall
    /\ calls = 2
    /\ preObjs = 1
    /\ Finished
    /\ name = "plot_mt_response"
    /\ ctorLog = <<[cls |-> "PlotResponse", args |-> bundle0]>>

\* C7: the functions validate nothing: whatever the bundle, the constructor
\* is invoked with it, and a failure the caller sees was raised by it.
C7_NoValidationOfItsOwn ==
    InCall =>
        /\ Finished => Len(ctorLog) = 1 /\ ctorLog[1].args = bundle0
        /\ outcome.kind = "error" =>
               /\ ctorState = "failed"
               /\ ctorErr \in Errors
               /\ outcome.err = ctorErr

C7_Witness ==
    /\ InCall
    /\ pc = "returned"
    /\ "unknown_key" \in DOMAIN bundle0
    /\ bundle0["unknown_key"] = "malformed"
    /\ ctorLog[1].args = bundle0

\* C8: every name in the docstring's function table is defined, and calling
\* it constructs the class its description names.
C8_DocumentedNamesConstruct ==
    (Finished /\ name \in DocumentedNames) =>
        /\ name \in Functions
        /\ Len(ctorLog) = 1
        /\ ctorLog[1].cls = DocTarget(name)

\* C9: within a call the constructor is invoked and completes before the
\* function returns or raises, and nothing is constructed after that.
C9_StateOrder ==
    InCall =>
        /\ pc = "returned" => ctorState = "finished" /\ Len(ctorLog) = 1
        /\ pc = "raised" => ctorState = "failed" /\ Len(ctorLog) = 1
        /\ ctorState = "running" <=> pc = "constructing"

C9_Synchronous ==
    /\ []C9_StateOrder
    /\ [][(Finished /\ pc' # "idle") =>
             /\ ctorLog' = ctorLog
             /\ ctorState' = ctorState
             /\ ctorObj' = ctorObj
             /\ store' = store]_vars

C9_Witness ==
    /\ InCall
    /\ pc = "returned"
    /\ ctorState = "finished"
    /\ objs[ctorObj] = "skew_seg"
    /\ store[ctorRef] # bundle0

\* C10: the caller's own bundle keeps its keys and bindings through a call,
\* whatever the constructor does to the mapping it received.
C10_CallerBundleUntouched ==
    InCall =>
        /\ store[callerRef] = bundle0
        /\ kwargsRef # callerRef
        /\ ctorRef # callerRef

C10_Witness ==
    /\ InCall
    /\ pc = "raised"
    /\ bundle0 = [k \in {"plot_tipper"} |-> "yr"]
    /\ store[ctorRef] = EmptyBundle
    /\ store[callerRef] = bundle0

====
